---- MODULE Spec2Model ----
(***************************************************************************)
(* Model of convert_cursors.py: the Windows-to-Linux cursor theme          *)
(* converter.  Strings that the code inspects character by character       *)
(* (file names, descriptor text, the alias lists) are sequences of         *)
(* one-character strings; role names, which the code only uses as          *)
(* dictionary keys, are plain strings.                                     *)
(***************************************************************************)
EXTENDS Integers, Sequences, FiniteSets, TLC

\* ---------------------------------------------------------------- bounds
\* tokens concatenated into a file stem (pattern classification inputs)
MaxTokens == 2
\* lines of a descriptor file
MaxLines == 2
\* theme directories under input/
MaxThemes == 2

\* ------------------------------------------------------- string helpers
\* Python's None
None == "None"

\* the value of exit_code while the process runs
NotExited == -1

\* the characters str.strip() and str.split() treat as whitespace
Whitespace == {" ", "\t", "\n", "\r", "\f"}

UpperChars == <<"A","B","C","D","E","F","G","H","I","J","K","L","M","N","O","P","Q","R","S","T","U","V","W","X","Y","Z">>

LowerChars == <<"a","b","c","d","e","f","g","h","i","j","k","l","m","n","o","p","q","r","s","t","u","v","w","x","y","z">>

\* str.lower() on one character
LowerChar(c) ==
    IF \E i \in 1..Len(UpperChars) : UpperChars[i] = c
    THEN LowerChars[CHOOSE i \in 1..Len(UpperChars) : UpperChars[i] = c]
    ELSE c

\* str.lower()
Lower(s) == [i \in 1..Len(s) |-> LowerChar(s[i])]

\* the Python expression  sub in s
Contains(sub, s) ==
    \E i \in 0..(Len(s) - Len(sub)) : SubSeq(s, i + 1, i + Len(sub)) = sub

\* str.find(ch) + 1 for a one-character ch: 0 when absent
Find(s, ch) ==
    IF \E i \in 1..Len(s) : s[i] = ch
    THEN CHOOSE i \in 1..Len(s) : s[i] = ch /\ \A j \in 1..(i - 1) : s[j] # ch
    ELSE 0

\* str.rfind(ch) + 1
RFind(s, ch) ==
    IF \E i \in 1..Len(s) : s[i] = ch
    THEN CHOOSE i \in 1..Len(s) : s[i] = ch /\ \A j \in (i + 1)..Len(s) : s[j] # ch
    ELSE 0

\* str.split(sep) for a one-character separator
RECURSIVE Split(_, _)
Split(s, sep) ==
    IF Find(s, sep) = 0 THEN <<s>>
    ELSE <<SubSeq(s, 1, Find(s, sep) - 1)>> \o Split(SubSeq(s, Find(s, sep) + 1, Len(s)), sep)

\* str.strip()
RECURSIVE Strip(_)
Strip(s) ==
    IF s = <<>> THEN s
    ELSE IF s[1] \in Whitespace THEN Strip(Tail(s))
    ELSE IF s[Len(s)] \in Whitespace THEN Strip(SubSeq(s, 1, Len(s) - 1))
    ELSE s

\* str.split() with no argument: the maximal runs of non-whitespace
RECURSIVE SplitWords(_)
SplitWords(s) ==
    LET t == Strip(s)
        ws == {i \in 1..Len(t) : t[i] \in Whitespace}
        k == IF ws = {} THEN Len(t) + 1 ELSE CHOOSE i \in ws : \A j \in ws : i <= j
    IN IF t = <<>> THEN <<>>
       ELSE <<SubSeq(t, 1, k - 1)>> \o SplitWords(SubSeq(t, k, Len(t)))

\* the elements of a sequence
Range(seq) == {seq[i] : i \in 1..Len(seq)}

\* PurePath.stem: the name without its last suffix
Stem(name) ==
    LET i == RFind(name, ".")
    IN IF 1 < i /\ i < Len(name) THEN SubSeq(name, 1, i - 1) ELSE name

\* ------------------------------------------------------------ the tables
CURSOR_MAPPINGS ==
    [Alternate |-> <<"b","o","t","t","o","m","_","l","e","f","t","_","c","o","r","n","e","r"," ","b","o","t","t","o","m","_","r","i","g","h","t","_","c","o","r","n","e","r"," ","b","o","t","t","o","m","_","s","i","d","e"," ","d","o","w","n","-","a","r","r","o","w"," ","l","e","f","t","-","a","r","r","o","w"," ","l","e","f","t","_","s","i","d","e"," ","r","i","g","h","t","-","a","r","r","o","w"," ","r","i","g","h","t","_","s","i","d","e"," ","t","o","p","_","l","e","f","t","_","c","o","r","n","e","r"," ","t","o","p","_","r","i","g","h","t","_","c","o","r","n","e","r"," ","t","o","p","_","s","i","d","e"," ","u","p","_","a","r","r","o","w">>,
     Busy |-> <<"h","a","l","f","-","b","u","s","y"," ","w","a","i","t"," ","w","a","t","c","h">>,
     Cross |-> <<"c","r","o","s","s"," ","c","r","o","s","s","h","a","i","r">>,
     Default |-> <<"a","r","r","o","w"," ","d","e","f","a","u","l","t"," ","l","e","f","t","_","p","t","r"," ","s","i","z","e","-","b","d","i","a","g"," ","s","i","z","e","-","f","d","i","a","g"," ","s","i","z","e","-","h","o","r"," ","s","i","z","e","-","v","e","r"," ","t","o","p","_","l","e","f","t","_","a","r","r","o","w">>,
     Dgn1 |-> <<"n","w","-","r","e","s","i","z","e"," ","n","w","s","e","-","r","e","s","i","z","e"," ","s","e","-","r","e","s","i","z","e"," ","s","i","z","e","_","f","d","i","a","g">>,
     Dgn2 |-> <<"n","e","-","r","e","s","i","z","e"," ","n","e","s","w","-","r","e","s","i","z","e"," ","s","w","-","r","e","s","i","z","e"," ","s","i","z","e","_","b","d","i","a","g">>,
     Hand |-> <<"d","r","a","f","t"," ","p","e","n","c","i","l">>,
     Help |-> <<"h","e","l","p"," ","l","e","f","t","_","p","t","r","_","h","e","l","p"," ","q","u","e","s","t","i","o","n","_","a","r","r","o","w"," ","w","h","a","t","s","_","t","h","i","s">>,
     Horizontal |-> <<"c","o","l","-","r","e","s","i","z","e"," ","e","-","r","e","s","i","z","e"," ","e","w","-","r","e","s","i","z","e"," ","h","_","d","o","u","b","l","e","_","a","r","r","o","w"," ","s","b","_","h","_","d","o","u","b","l","e","_","a","r","r","o","w"," ","s","i","z","e","_","h","o","r"," ","s","p","l","i","t","_","h"," ","w","-","r","e","s","i","z","e">>,
     Link |-> <<"g","r","a","b"," ","h","a","n","d"," ","h","a","n","d","1"," ","h","a","n","d","2"," ","o","p","e","n","h","a","n","d"," ","p","o","i","n","t","e","r"," ","p","o","i","n","t","i","n","g","_","h","a","n","d">>,
     Move |-> <<"a","l","l","-","s","c","r","o","l","l"," ","c","l","o","s","e","d","h","a","n","d"," ","d","n","d","-","m","o","v","e"," ","d","n","d","-","n","o","n","e"," ","f","l","e","u","r"," ","g","r","a","b","b","i","n","g"," ","m","o","v","e"," ","s","i","z","e","_","a","l","l">>,
     Text |-> <<"i","b","e","a","m"," ","t","e","x","t"," ","x","t","e","r","m">>,
     Unavailable |-> <<"c","i","r","c","l","e"," ","c","r","o","s","s","e","d","_","c","i","r","c","l","e"," ","d","n","d","_","n","o","_","d","r","o","p"," ","f","o","r","b","i","d","d","e","n"," ","n","o","_","d","r","o","p"," ","n","o","t","_","a","l","l","o","w","e","d">>,
     Vertical |-> <<"n","-","r","e","s","i","z","e"," ","n","s","-","r","e","s","i","z","e"," ","r","o","w","-","r","e","s","i","z","e"," ","s","-","r","e","s","i","z","e"," ","s","b","_","v","_","d","o","u","b","l","e","_","a","r","r","o","w"," ","s","i","z","e","_","v","e","r"," ","s","p","l","i","t","_","v"," ","v","_","d","o","u","b","l","e","_","a","r","r","o","w">>,
     Work |-> <<"l","e","f","t","_","p","t","r","_","w","a","t","c","h"," ","p","i","r","a","t","e"," ","p","r","o","g","r","e","s","s">>]

\* CURSOR_MAPPINGS.get(cursor_name, "")
MappingGet(cursor_name) ==
    IF cursor_name \in DOMAIN CURSOR_MAPPINGS THEN CURSOR_MAPPINGS[cursor_name] ELSE <<>>

\* the dictionary  mapping  of get_cursor_name_from_inf, as (key, role) pairs
mapping ==
    {<<<<"p","o","i","n","t","e","r">>, "Default">>, <<<<"h","e","l","p">>, "Help">>, <<<<"w","o","r","k","i","n","g">>, "Work">>,
     <<<<"b","u","s","y">>, "Busy">>, <<<<"p","r","e","c","i","s","i","o","n">>, "Cross">>, <<<<"t","e","x","t">>, "Text">>,
     <<<<"h","a","n","d">>, "Hand">>, <<<<"u","n","a","v","a","i","l","a","b","l","e">>, "Unavailable">>, <<<<"v","e","r","t">>, "Vertical">>,
     <<<<"h","o","r","z">>, "Horizontal">>, <<<<"d","g","n","1">>, "Dgn1">>, <<<<"d","g","n","2">>, "Dgn2">>,
     <<<<"m","o","v","e">>, "Move">>, <<<<"a","l","t","e","r","n","a","t","e">>, "Alternate">>, <<<<"l","i","n","k">>, "Link">>}

\* faulty variant: the descriptor table names a role CURSOR_MAPPINGS does not have
InfMappingGetHandwriting(key) ==
    IF key = <<"h","a","n","d">> THEN "Handwriting"
    ELSE IF \E p \in mapping : p[1] = key
    THEN (CHOOSE p \in mapping : p[1] = key)[2]
    ELSE None

\* mapping.get(key)
InfMappingGet(key) ==
    IF \E p \in mapping : p[1] = key
    THEN (CHOOSE p \in mapping : p[1] = key)[2]
    ELSE None

\* ------------------------------------------------------- the classifier
\* any(x in base_name for x in patterns)
AnyIn(patterns, base_name) == \E x \in patterns : Contains(x, base_name)

\* faulty variant: the chain with the Link test moved before the Hand test
PatternRoleLinkFirst(base_name) ==
    IF AnyIn({<<"n","o","r","m","a","l">>, <<"a","r","r","o","w">>, <<"d","e","f","a","u","l","t">>}, base_name) THEN "Default"
    ELSE IF AnyIn({<<"b","u","s","y">>, <<"w","a","i","t">>}, base_name) THEN "Busy"
    ELSE IF AnyIn({<<"t","e","x","t">>, <<"b","e","a","m">>}, base_name) THEN "Text"
    ELSE IF Contains(<<"l","i","n","k">>, base_name) THEN "Link"
    ELSE IF AnyIn({<<"h","a","n","d","w","r","i","t","i","n","g">>, <<"h","a","n","d">>}, base_name) THEN "Hand"
    ELSE IF AnyIn({<<"p","r","e","c","i","s","i","o","n">>, <<"c","r","o","s","s">>}, base_name) THEN "Cross"
    ELSE IF Contains(<<"m","o","v","e">>, base_name) THEN "Move"
    ELSE IF Contains(<<"h","e","l","p">>, base_name) THEN "Help"
    ELSE IF AnyIn({<<"u","n","a","v","a","i","l","a","b","l","e">>, <<"n","o">>}, base_name) THEN "Unavailable"
    ELSE IF AnyIn({<<"v","e","r","t","i","c","a","l">>, <<"v","e","r","t">>}, base_name) THEN "Vertical"
    ELSE IF AnyIn({<<"h","o","r","i","z","o","n","t","a","l">>, <<"h","o","r","z">>}, base_name) THEN "Horizontal"
    ELSE IF AnyIn({<<"d","i","a","g","o","n","a","l","1">>, <<"d","g","n","1">>}, base_name) THEN "Dgn1"
    ELSE IF AnyIn({<<"d","i","a","g","o","n","a","l","2">>, <<"d","g","n","2">>}, base_name) THEN "Dgn2"
    ELSE IF AnyIn({<<"w","o","r","k","i","n","g">>, <<"w","o","r","k">>, <<"p","r","o","g","r","e","s","s">>}, base_name) THEN "Work"
    ELSE IF AnyIn({<<"a","l","t","e","r","n","a","t","e">>, <<"a","l","t">>}, base_name) THEN "Alternate"
    ELSE None

\* the if/elif chain over the lowercased stem
PatternRole(base_name) ==
    IF AnyIn({<<"n","o","r","m","a","l">>, <<"a","r","r","o","w">>, <<"d","e","f","a","u","l","t">>}, base_name) THEN "Default"
    ELSE IF AnyIn({<<"b","u","s","y">>, <<"w","a","i","t">>}, base_name) THEN "Busy"
    ELSE IF AnyIn({<<"t","e","x","t">>, <<"b","e","a","m">>}, base_name) THEN "Text"
    ELSE IF AnyIn({<<"h","a","n","d","w","r","i","t","i","n","g">>, <<"h","a","n","d">>}, base_name) THEN "Hand"
    ELSE IF Contains(<<"l","i","n","k">>, base_name) THEN "Link"
    ELSE IF AnyIn({<<"p","r","e","c","i","s","i","o","n">>, <<"c","r","o","s","s">>}, base_name) THEN "Cross"
    ELSE IF Contains(<<"m","o","v","e">>, base_name) THEN "Move"
    ELSE IF Contains(<<"h","e","l","p">>, base_name) THEN "Help"
    ELSE IF AnyIn({<<"u","n","a","v","a","i","l","a","b","l","e">>, <<"n","o">>}, base_name) THEN "Unavailable"
    ELSE IF AnyIn({<<"v","e","r","t","i","c","a","l">>, <<"v","e","r","t">>}, base_name) THEN "Vertical"
    ELSE IF AnyIn({<<"h","o","r","i","z","o","n","t","a","l">>, <<"h","o","r","z">>}, base_name) THEN "Horizontal"
    ELSE IF AnyIn({<<"d","i","a","g","o","n","a","l","1">>, <<"d","g","n","1">>}, base_name) THEN "Dgn1"
    ELSE IF AnyIn({<<"d","i","a","g","o","n","a","l","2">>, <<"d","g","n","2">>}, base_name) THEN "Dgn2"
    ELSE IF AnyIn({<<"w","o","r","k","i","n","g">>, <<"w","o","r","k">>, <<"p","r","o","g","r","e","s","s">>}, base_name) THEN "Work"
    ELSE IF AnyIn({<<"a","l","t","e","r","n","a","t","e">>, <<"a","l","t">>}, base_name) THEN "Alternate"
    ELSE None

\* the f-string  = "{file_name}"
Needle(file_name) == <<"="," ","\"">> \o file_name \o <<"\"">>

\* the index of the first line of the descriptor that contains the needle, 0 if none
FirstHit(lines, file_name) ==
    IF \E i \in 1..Len(lines) : Contains(Needle(file_name), lines[i])
    THEN CHOOSE i \in 1..Len(lines) :
            /\ Contains(Needle(file_name), lines[i])
            /\ \A j \in 1..(i - 1) : ~Contains(Needle(file_name), lines[j])
    ELSE 0

\* line.split('=')[0].strip()
CursorVar(line) == Strip(Split(line, "=")[1])

\* no descriptor was found in the theme directory
NoInf == [present |-> FALSE, readable |-> FALSE, content |-> <<>>]

\* get_cursor_name_from_inf(inf_file, cursor_file); cursor_file is the file's name
GetCursorNameFromInf(inf_file, cursor_file) ==
    LET lines == Split(inf_file.content, "\n")
        hit == FirstHit(lines, cursor_file)
    IN IF inf_file.present /\ inf_file.readable /\ hit # 0
       THEN InfMappingGet(Lower(CursorVar(lines[hit])))
       ELSE PatternRole(Lower(Stem(cursor_file)))

\* ------------------------------------------------------------- the state
VARIABLES
    pc,               \* the position of the run (or of the classifier call)
    win2xcur_ok,      \* environment: "win2xcur --help" succeeds
    input_exists,     \* file system: input/ exists
    output_exists,    \* file system: output/ exists
    theme_dirs,       \* file system: the theme directories under input/, in iterdir order
    theme_idx,        \* run: the position of the loop over theme_dirs
    inf_file,         \* process_cursor_theme: the descriptor chosen for the theme
    cursor_files,     \* process_cursor_theme: the names find_cursor_files returned
    file_idx,         \* process_cursor_theme: the position of the loop over cursor_files
    cursor_file,      \* process_cursor_theme: the file of the current iteration
    cursor_name,      \* process_cursor_theme: the classifier's result for it
    converted_count,  \* process_cursor_theme: the tally of successful conversions
    total_count,      \* process_cursor_theme: len(cursor_files)
    temp_dirs,        \* file system: the scratch directories that exist
    calls,            \* the number of convert_cursor_file calls made so far
    converter_runs,   \* the converter invocations of the current call
    converted_file,   \* convert_cursor_file: the artifact found in the scratch directory
    ret,              \* convert_cursor_file: the value it is about to return
    output,           \* file system: output/<theme>, by theme name
    stdout,           \* the messages printed so far
    checks,           \* the number of "win2xcur --help" invocations made
    exit_code         \* the process's exit code, NotExited while it runs

vars == <<pc, win2xcur_ok, input_exists, output_exists, theme_dirs, theme_idx, inf_file,
          cursor_files, file_idx, cursor_file, cursor_name, converted_count, total_count,
          temp_dirs, calls, converter_runs, converted_file, ret, output, stdout, checks,
          exit_code>>

\* the variables of the run that a lone classifier call leaves alone
runVars == <<win2xcur_ok, input_exists, output_exists, theme_dirs, theme_idx,
             cursor_files, file_idx, converted_count, total_count, temp_dirs, calls,
             converter_runs, converted_file, ret, output, stdout, checks, exit_code>>

\* ------------------------------------------- inputs of the classifier calls
\* the tokens file stems are built from
Tokens ==
    {<<"N","o","r","m","a","l">>, <<"M","y","B","u","s","y","C","u","r","s","o","r">>, <<"T","e","x","t">>, <<"H","A","N","D">>, <<"l","i","n","k">>, <<"c","r","o","s","s">>, <<"M","o","v","e">>,
     <<"h","e","l","p">>, <<"n","o">>, <<"v","e","r","t">>, <<"H","o","r","z">>, <<"d","g","n","1">>, <<"D","i","a","g","o","n","a","l","2">>, <<"w","o","r","k">>, <<"a","l","t">>,
     <<"x">>, <<"v",".","2">>}

\* the concatenations of 1..n tokens
RECURSIVE StemsOf(_)
StemsOf(n) ==
    IF n = 0 THEN {<<>>}
    ELSE StemsOf(n - 1) \cup {s \o t : s \in StemsOf(n - 1), t \in Tokens}

Extensions == {<<".","c","u","r">>, <<".","a","n","i">>}

\* the file names the pattern rules are tried on
PatternNames == {s \o e : s \in StemsOf(MaxTokens) \ {<<>>}, e \in Extensions}

\* the file names descriptors are written about
DescriptorNames == {<<"b","u","s","y",".","c","u","r">>, <<"L","i","n","k",".","a","n","i">>, <<"z","z","z",".","c","u","r">>}

\* identifiers on the left of a descriptor line
LineIds == {<<"P","o","i","n","t","e","r">>, <<"h","a","n","d">>, <<"f","o","o">>}

\* the lines a descriptor about file f is made of
LinesAbout(f) ==
    {id \o <<" ","="," ","\"">> \o f \o <<"\"">> : id \in LineIds}
    \cup {<<" "," ">> \o id \o <<"\t","="," ","\"">> \o f \o <<"\"","\r">> : id \in {<<"T","E","X","T">>}}
    \cup {id \o <<"=","\"">> \o f \o <<"\"">> : id \in {<<"h","a","n","d">>}}
    \cup {id \o <<" ","="," ","\"","o","t","h","e","r",".","c","u","r","\"">> : id \in {<<"P","o","i","n","t","e","r">>}}
    \cup {<<"[","S","t","r","i","n","g","s","]">>}

\* "\n".join(lines)
RECURSIVE JoinLines(_)
JoinLines(lines) ==
    IF lines = <<>> THEN <<>>
    ELSE IF Len(lines) = 1 THEN lines[1]
    ELSE lines[1] \o <<"\n">> \o JoinLines(Tail(lines))

\* the sequences over S of length at most n
RECURSIVE SeqsUpTo(_, _)
SeqsUpTo(S, n) ==
    IF n = 0 THEN {<<>>}
    ELSE SeqsUpTo(S, n - 1) \cup {Append(q, x) : q \in SeqsUpTo(S, n - 1), x \in S}

\* the descriptors about file f: absent, unreadable, or up to MaxLines lines
InfFilesAbout(f) ==
    {NoInf}
    \cup {[present |-> TRUE, readable |-> r, content |-> JoinLines(ls)] :
            r \in BOOLEAN, ls \in SeqsUpTo(LinesAbout(f), MaxLines)}

\* a descriptor that names f but cannot be opened (open() raises)
UnreadableInf(f) ==
    [present |-> TRUE, readable |-> FALSE, content |-> <<"P","o","i","n","t","e","r"," ","="," ","\"">> \o f \o <<"\"">>]

\* a descriptor that names another file only
OtherInf ==
    [present |-> TRUE, readable |-> TRUE,
     content |-> <<"[","S","t","r","i","n","g","s","]","\n","P","o","i","n","t","e","r"," ","="," ","\"","o","t","h","e","r",".","c","u","r","\"","\n","h","a","n","d"," ","="," ","\"","b",".","c","u","r","\"">>]

\* the state of a run that has not started
RunIdle ==
    /\ win2xcur_ok = TRUE
    /\ input_exists = FALSE
    /\ output_exists = FALSE
    /\ theme_dirs = <<>>
    /\ theme_idx = 0
    /\ cursor_files = <<>>
    /\ file_idx = 0
    /\ converted_count = 0
    /\ total_count = 0
    /\ temp_dirs = {}
    /\ calls = 0
    /\ converter_runs = 0
    /\ converted_file = <<>>
    /\ ret = FALSE
    /\ output = <<>>
    /\ stdout = <<>>
    /\ checks = 0
    /\ exit_code = NotExited

\* a classifier call about to be made on some file and descriptor
ClassifyInit ==
    /\ pc = "call"
    /\ \/ /\ cursor_file \in PatternNames
          /\ inf_file \in {NoInf, UnreadableInf(cursor_file), OtherInf}
       \/ /\ cursor_file \in DescriptorNames
          /\ inf_file \in InfFilesAbout(cursor_file)
    /\ cursor_name = None
    /\ RunIdle

\* cursor_name = self.get_cursor_name_from_inf(inf_file, cursor_file)
CallGetCursorName ==
    /\ pc = "call"
    /\ cursor_name' = GetCursorNameFromInf(inf_file, cursor_file)
    /\ pc' = "returned"
    /\ UNCHANGED <<inf_file, cursor_file>>
    /\ UNCHANGED runVars

ClassifyNext == CallGetCursorName

SpecClassify == ClassifyInit /\ [][ClassifyNext]_vars

\* ------------------------------------------------------ inputs of the run
\* the themes a run may find under input/: each a directory listing, in scandir order
EmptyTheme == <<[name |-> <<"r","e","a","d","m","e",".","t","x","t">>, text |-> <<>>]>>

NormalTheme == <<[name |-> <<"n","o","r","m","a","l",".","c","u","r">>, text |-> <<>>]>>

HandTheme ==
    <<[name |-> <<"h","a","n","d","w","r","i","t","i","n","g",".","a","n","i">>, text |-> <<>>], [name |-> <<"h","a","n","d",".","c","u","r">>, text |-> <<>>]>>

InfTheme ==
    <<[name |-> <<"z","z","z",".","c","u","r">>, text |-> <<>>],
      [name |-> <<"t","h","e","m","e",".","i","n","f">>, text |-> <<"[","S","t","r","i","n","g","s","]","\n","P","o","i","n","t","e","r"," ","="," ","\"","z","z","z",".","c","u","r","\"">>],
      [name |-> <<"B","u","s","y",".","c","u","r">>, text |-> <<>>],
      [name |-> <<"i","n","s","t","a","l","l",".","i","n","f">>, text |-> <<"[","S","t","r","i","n","g","s","]","\n","T","E","X","T"," ","="," ","\"","B","u","s","y",".","c","u","r","\"">>]>>

ThemePool == {EmptyTheme, NormalTheme, HandTheme, InfTheme}

\* the names of the theme directories, by position
ThemeNames == <<"t1", "t2", "t3", "t4">>

\* the listings of input/ a run may start from
ThemeDirs ==
    {[i \in 1..Len(q) |-> [name |-> ThemeNames[i], entries |-> q[i]]] :
        q \in SeqsUpTo(ThemePool, MaxThemes)}

\* --------------------------------------------------------------- the run
\* fnmatch of "*<suffix>" against a name
EndsWith(name, suffix) ==
    /\ Len(name) >= Len(suffix)
    /\ SubSeq(name, Len(name) - Len(suffix) + 1, Len(name)) = suffix

\* directory.glob("*<suffix>"): the names of the matching entries, in listing order
RECURSIVE Glob(_, _)
Glob(entries, suffix) ==
    IF entries = <<>> THEN <<>>
    ELSE (IF EndsWith(Head(entries).name, suffix) THEN <<Head(entries).name>> ELSE <<>>)
         \o Glob(Tail(entries), suffix)

\* find_cursor_files(directory): "*.cur" first, then "*.ani"
FindCursorFiles(entries) == Glob(entries, <<".","c","u","r">>) \o Glob(entries, <<".","a","n","i">>)

\* the position of the entry of that name in the listing
IndexOf(entries, name) == CHOOSE i \in 1..Len(entries) : entries[i].name = name

\* inf_files = glob("install.inf") + glob("*.inf"); inf_files[0] if any, else None
FindInfFile(entries) ==
    LET installs == SelectSeq(Glob(entries, <<"i","n","s","t","a","l","l",".","i","n","f">>), LAMBDA n : n = <<"i","n","s","t","a","l","l",".","i","n","f">>)
        inf_files == installs \o Glob(entries, <<".","i","n","f">>)
    IN IF inf_files = <<>> THEN NoInf
       ELSE [present |-> TRUE, readable |-> TRUE,
             content |-> entries[IndexOf(entries, inf_files[1])].text]

\* one printed message
Message(msg, theme, file, role, count, total) ==
    [msg |-> msg, theme |-> theme, file |-> file, role |-> role, count |-> count, total |-> total]

\* print_message of a message about the whole run
Say(msg) == stdout' = Append(stdout, Message(msg, None, <<>>, None, 0, 0))

\* the theme directory being processed
Theme == theme_dirs[theme_idx]

\* print_message of a message about the current theme or file
SayFile(msg, file, role) ==
    stdout' = Append(stdout, Message(msg, Theme.name, file, role, 0, 0))

\* the artifact the converter makes of a source file
Converted(theme_name, file_name) == <<theme_name, file_name>>

\* an output theme directory as mkdir leaves it: the cursors directory and the files beside it
NewThemeDir == [cursors |-> <<>>, files |-> <<>>]

\* the text create_index_theme writes
IndexTheme(theme_name) ==
    [Name |-> theme_name, Comment |-> <<"Converted Windows cursor theme: ", theme_name>>,
     Inherits |-> "core"]

\* the run goes on to the next theme directory, or ends the loop
NextTheme ==
    /\ theme_idx' = theme_idx + 1
    /\ pc' = IF theme_idx < Len(theme_dirs) THEN "process_cursor_theme" ELSE "completed"

\* the theme goes on to the next cursor file, or ends the loop
NextFile ==
    /\ file_idx' = file_idx + 1
    /\ pc' = IF file_idx < Len(cursor_files) THEN "classify" ELSE "tally"

Init ==
    /\ pc = "check_win2xcur"
    /\ win2xcur_ok \in BOOLEAN
    /\ input_exists \in BOOLEAN
    /\ output_exists = FALSE
    /\ theme_dirs \in (IF input_exists THEN ThemeDirs ELSE {<<>>})
    /\ theme_idx = 0
    /\ inf_file = NoInf
    /\ cursor_files = <<>>
    /\ file_idx = 0
    /\ cursor_file = <<>>
    /\ cursor_name = None
    /\ converted_count = 0
    /\ total_count = 0
    /\ temp_dirs = {}
    /\ calls = 0
    /\ converter_runs = 0
    /\ converted_file = <<>>
    /\ ret = FALSE
    /\ output = <<>>
    /\ stdout = <<>>
    /\ checks = 0
    /\ exit_code = NotExited

\* run: if not self.check_win2xcur(): sys.exit(1)
CheckWin2xcur ==
    /\ pc = "check_win2xcur"
    /\ checks' = checks + 1
    /\ IF win2xcur_ok
       THEN /\ pc' = "create_directories"
            /\ UNCHANGED <<stdout, exit_code>>
       ELSE /\ Say("Error: win2xcur is not installed or not in PATH")
            /\ exit_code' = 1
            /\ pc' = "exited"
    /\ UNCHANGED <<win2xcur_ok, input_exists, output_exists, theme_dirs, theme_idx, inf_file,
                   cursor_files, file_idx, cursor_file, cursor_name, converted_count,
                   total_count, temp_dirs, calls, converter_runs, converted_file, ret, output>>

\* faulty variant: a missing input directory ends the run with exit code 1
CreateDirectoriesExit1 ==
    /\ pc = "create_directories"
    /\ IF ~input_exists
       THEN /\ input_exists' = TRUE
            /\ Say("Created input directory")
            /\ exit_code' = 1
            /\ pc' = "exited"
            /\ UNCHANGED output_exists
       ELSE /\ output_exists' = TRUE
            /\ pc' = "iterdir"
            /\ UNCHANGED <<input_exists, stdout, exit_code>>
    /\ UNCHANGED <<win2xcur_ok, theme_dirs, theme_idx, inf_file, cursor_files, file_idx,
                   cursor_file, cursor_name, converted_count, total_count, temp_dirs, calls,
                   converter_runs, converted_file, ret, output, checks>>

\* run: if not self.create_directories(): sys.exit(0)
CreateDirectories ==
    /\ pc = "create_directories"
    /\ IF ~input_exists
       THEN /\ input_exists' = TRUE
            /\ Say("Created input directory")
            /\ exit_code' = 0
            /\ pc' = "exited"
            /\ UNCHANGED output_exists
       ELSE /\ output_exists' = TRUE
            /\ pc' = "iterdir"
            /\ UNCHANGED <<input_exists, stdout, exit_code>>
    /\ UNCHANGED <<win2xcur_ok, theme_dirs, theme_idx, inf_file, cursor_files, file_idx,
                   cursor_file, cursor_name, converted_count, total_count, temp_dirs, calls,
                   converter_runs, converted_file, ret, output, checks>>

\* run: theme_dirs = [...]; if not theme_dirs: sys.exit(0)
ListThemeDirs ==
    /\ pc = "iterdir"
    /\ IF theme_dirs = <<>>
       THEN /\ Say("No cursor theme directories found")
            /\ exit_code' = 0
            /\ pc' = "exited"
            /\ UNCHANGED theme_idx
       ELSE /\ theme_idx' = 1
            /\ pc' = "process_cursor_theme"
            /\ UNCHANGED <<stdout, exit_code>>
    /\ UNCHANGED <<win2xcur_ok, input_exists, output_exists, theme_dirs, inf_file,
                   cursor_files, file_idx, cursor_file, cursor_name, converted_count,
                   total_count, temp_dirs, calls, converter_runs, converted_file, ret, output,
                   checks>>

\* faulty variant: no early return when the theme has no cursor files
ProcessCursorThemeNoReturn ==
    /\ pc = "process_cursor_theme"
    /\ output' = output @@ (Theme.name :> NewThemeDir)
    /\ inf_file' = FindInfFile(Theme.entries)
    /\ cursor_files' = FindCursorFiles(Theme.entries)
    /\ IF cursor_files' = <<>>
       THEN /\ SayFile("No cursor files found", <<>>, None)
            /\ converted_count' = 0
            /\ total_count' = 0
            /\ pc' = "tally"
            /\ UNCHANGED <<file_idx, theme_idx>>
       ELSE /\ converted_count' = 0
            /\ total_count' = Len(cursor_files')
            /\ file_idx' = 1
            /\ pc' = "classify"
            /\ UNCHANGED <<stdout, theme_idx>>
    /\ UNCHANGED <<win2xcur_ok, input_exists, output_exists, theme_dirs, cursor_file,
                   cursor_name, temp_dirs, calls, converter_runs, converted_file, ret, checks,
                   exit_code>>

\* process_cursor_theme up to the loop over the cursor files
ProcessCursorTheme ==
    /\ pc = "process_cursor_theme"
    /\ output' = output @@ (Theme.name :> NewThemeDir)
    /\ inf_file' = FindInfFile(Theme.entries)
    /\ cursor_files' = FindCursorFiles(Theme.entries)
    /\ IF cursor_files' = <<>>
       THEN /\ SayFile("No cursor files found", <<>>, None)
            /\ NextTheme
            /\ UNCHANGED <<file_idx, converted_count, total_count>>
       ELSE /\ converted_count' = 0
            /\ total_count' = Len(cursor_files')
            /\ file_idx' = 1
            /\ pc' = "classify"
            /\ UNCHANGED <<stdout, theme_idx>>
    /\ UNCHANGED <<win2xcur_ok, input_exists, output_exists, theme_dirs, cursor_file,
                   cursor_name, temp_dirs, calls, converter_runs, converted_file, ret, checks,
                   exit_code>>

\* the loop body of process_cursor_theme up to the call of convert_cursor_file
ClassifyCursorFile ==
    /\ pc = "classify"
    /\ cursor_file' = cursor_files[file_idx]
    /\ cursor_name' = GetCursorNameFromInf(inf_file, cursor_file')
    /\ IF cursor_name' = None
       THEN /\ SayFile("Skipping unmapped cursor", cursor_file', None)
            /\ NextFile
       ELSE IF MappingGet(cursor_name') = <<>>
       THEN /\ SayFile("No mapping found for", cursor_file', cursor_name')
            /\ NextFile
       ELSE /\ SayFile("Converting", cursor_file', cursor_name')
            /\ pc' = "tempdir"
            /\ UNCHANGED file_idx
    /\ UNCHANGED <<win2xcur_ok, input_exists, output_exists, theme_dirs, theme_idx, inf_file,
                   cursor_files, converted_count, total_count, temp_dirs, calls,
                   converter_runs, converted_file, ret, output, checks, exit_code>>

\* convert_cursor_file: with tempfile.TemporaryDirectory() as temp_dir
EnterTempDir ==
    /\ pc = "tempdir"
    /\ calls' = calls + 1
    /\ temp_dirs' = temp_dirs \cup {calls'}
    /\ converter_runs' = 0
    /\ converted_file' = <<>>
    /\ ret' = FALSE
    /\ pc' = "win2xcur"
    /\ UNCHANGED <<win2xcur_ok, input_exists, output_exists, theme_dirs, theme_idx, inf_file,
                   cursor_files, file_idx, cursor_file, cursor_name, converted_count,
                   total_count, output, stdout, checks, exit_code>>

\* what one converter invocation may do
ConverterOutcomes == {"raises", "nonzero", "no artifact", "artifact"}

\* faulty variant: an exception of the converter call is not caught and ends the run
RunConverterUncaught ==
    /\ pc = "win2xcur"
    /\ \E outcome \in ConverterOutcomes :
        /\ converter_runs' = IF outcome = "raises" THEN converter_runs ELSE converter_runs + 1
        /\ IF outcome = "raises"
           THEN SayFile("Error converting", cursor_file, None)
           ELSE UNCHANGED stdout
        /\ IF outcome = "artifact"
           THEN /\ converted_file' = Converted(Theme.name, cursor_file)
                /\ pc' = "copy"
                /\ UNCHANGED <<temp_dirs, exit_code>>
           ELSE IF outcome = "raises"
           THEN /\ pc' = "exited"
                /\ exit_code' = 1
                /\ temp_dirs' = temp_dirs \ {calls}
                /\ UNCHANGED converted_file
           ELSE /\ pc' = "cleanup"
                /\ UNCHANGED <<converted_file, temp_dirs, exit_code>>
    /\ UNCHANGED <<win2xcur_ok, input_exists, output_exists, theme_dirs, theme_idx, inf_file,
                   cursor_files, file_idx, cursor_file, cursor_name, converted_count,
                   total_count, calls, ret, output, checks>>

\* convert_cursor_file: subprocess.run, the return code and the glob of the scratch directory
RunConverter ==
    /\ pc = "win2xcur"
    /\ \E outcome \in ConverterOutcomes :
        /\ converter_runs' = IF outcome = "raises" THEN converter_runs ELSE converter_runs + 1
        /\ IF outcome = "raises"
           THEN SayFile("Error converting", cursor_file, None)
           ELSE UNCHANGED stdout
        /\ IF outcome = "artifact"
           THEN /\ converted_file' = Converted(Theme.name, cursor_file)
                /\ pc' = "copy"
           ELSE /\ pc' = "cleanup"
                /\ UNCHANGED converted_file
    /\ UNCHANGED <<win2xcur_ok, input_exists, output_exists, theme_dirs, theme_idx, inf_file,
                   cursor_files, file_idx, cursor_file, cursor_name, converted_count,
                   total_count, temp_dirs, calls, ret, output, checks, exit_code>>

\* faulty variant: the copy loop skips the first name
CopyToSkipsFirst(cursors, names, k, artifact) ==
    [a \in DOMAIN cursors \cup {names[i] : i \in 2..k} |->
        IF \E i \in 2..k : names[i] = a THEN artifact ELSE cursors[a]]

\* faulty variant: the copy loop leaves a name that exists already as it is
CopyToKeepsExisting(cursors, names, k, artifact) ==
    [a \in DOMAIN cursors \cup {names[i] : i \in 1..k} |->
        IF a \in DOMAIN cursors THEN cursors[a] ELSE artifact]

\* the directory after copy2 of the artifact onto the first k of the names
CopyTo(cursors, names, k, artifact) ==
    [a \in DOMAIN cursors \cup {names[i] : i \in 1..k} |->
        IF \E i \in 1..k : names[i] = a THEN artifact ELSE cursors[a]]

\* convert_cursor_file: the loop of shutil.copy2; the copy of name k + 1 may raise
CopyLinuxNames ==
    /\ pc = "copy"
    /\ LET linux_names == SplitWords(MappingGet(cursor_name))
       IN \E k \in 0..Len(linux_names) :
            /\ output' = [output EXCEPT ![Theme.name].cursors =
                                            CopyTo(@, linux_names, k, converted_file)]
            /\ IF k = Len(linux_names)
               THEN /\ ret' = TRUE
                    /\ UNCHANGED stdout
               ELSE /\ SayFile("Error converting", cursor_file, None)
                    /\ UNCHANGED ret
    /\ pc' = "cleanup"
    /\ UNCHANGED <<win2xcur_ok, input_exists, output_exists, theme_dirs, theme_idx, inf_file,
                   cursor_files, file_idx, cursor_file, cursor_name, converted_count,
                   total_count, temp_dirs, calls, converter_runs, converted_file, checks,
                   exit_code>>

\* faulty variant: the scratch directory is removed only after a successful conversion
LeaveTempDirLeaks ==
    /\ pc = "cleanup"
    /\ temp_dirs' = IF ret THEN temp_dirs \ {calls} ELSE temp_dirs
    /\ IF ret
       THEN /\ converted_count' = converted_count + 1
            /\ UNCHANGED stdout
       ELSE /\ SayFile("Failed to convert", cursor_file, None)
            /\ UNCHANGED converted_count
    /\ NextFile
    /\ UNCHANGED <<win2xcur_ok, input_exists, output_exists, theme_dirs, theme_idx, inf_file,
                   cursor_files, cursor_file, cursor_name, total_count, calls, converter_runs,
                   converted_file, ret, output, checks, exit_code>>

\* the end of the with block, the return, and the caller's tally of the result
LeaveTempDir ==
    /\ pc = "cleanup"
    /\ temp_dirs' = temp_dirs \ {calls}
    /\ IF ret
       THEN /\ converted_count' = converted_count + 1
            /\ UNCHANGED stdout
       ELSE /\ SayFile("Failed to convert", cursor_file, None)
            /\ UNCHANGED converted_count
    /\ NextFile
    /\ UNCHANGED <<win2xcur_ok, input_exists, output_exists, theme_dirs, theme_idx, inf_file,
                   cursor_files, cursor_file, cursor_name, total_count, calls, converter_runs,
                   converted_file, ret, output, checks, exit_code>>

\* process_cursor_theme after the loop: the tally and create_index_theme
FinishTheme ==
    /\ pc = "tally"
    /\ stdout' = stdout
                 \o <<Message("Converted", Theme.name, <<>>, None, converted_count, total_count),
                      Message("Created index.theme file", Theme.name, <<>>, None, 0, 0)>>
    /\ output' = [output EXCEPT ![Theme.name].files =
                                        ("index.theme" :> IndexTheme(Theme.name)) @@ @]
    /\ NextTheme
    /\ UNCHANGED <<win2xcur_ok, input_exists, output_exists, theme_dirs, inf_file,
                   cursor_files, file_idx, cursor_file, cursor_name, converted_count,
                   total_count, temp_dirs, calls, converter_runs, converted_file, ret, checks,
                   exit_code>>

\* run after the loop: the closing messages; main returns and the process exits with 0
Complete ==
    /\ pc = "completed"
    /\ Say("Conversion completed!")
    /\ exit_code' = 0
    /\ pc' = "exited"
    /\ UNCHANGED <<win2xcur_ok, input_exists, output_exists, theme_dirs, theme_idx, inf_file,
                   cursor_files, file_idx, cursor_file, cursor_name, converted_count,
                   total_count, temp_dirs, calls, converter_runs, converted_file, ret, output,
                   checks>>

Next ==
    \/ CheckWin2xcur
    \/ CreateDirectories
    \/ ListThemeDirs
    \/ ProcessCursorTheme
    \/ ClassifyCursorFile
    \/ EnterTempDir
    \/ RunConverter
    \/ CopyLinuxNames
    \/ LeaveTempDir
    \/ FinishTheme
    \/ Complete

Spec == Init /\ [][Next]_vars

\* ================================================================ claims
\* ------------------------------------------------ classifier: C1, C2, C3
\* the descriptor can be read
InfReadable == inf_file.present /\ inf_file.readable

\* the lines of the descriptor
InfLines == Split(inf_file.content, "\n")

\* the positions of the descriptor lines that name the file: = "<file name>"
HitLines == {i \in 1..Len(InfLines) : Contains(Needle(cursor_file), InfLines[i])}

\* the role a descriptor line's left-hand identifier stands for, None if unrecognized
LineRole(line) == InfMappingGet(Lower(CursorVar(line)))

\* the call saw no descriptor line that names the file
NoDescriptorHit == ~InfReadable \/ HitLines = {}

C2_UnrecognizedFallsThrough ==
    (pc = "returned" /\ InfReadable /\ HitLines # {}
        /\ \A i \in HitLines : LineRole(InfLines[i]) = None)
    => cursor_name = PatternRole(Lower(Stem(cursor_file)))

\* the roles in the order the claim gives, each with its substrings
RoleOrder ==
    <<<<"Default", {<<"n","o","r","m","a","l">>, <<"a","r","r","o","w">>, <<"d","e","f","a","u","l","t">>}>>,
      <<"Busy", {<<"b","u","s","y">>, <<"w","a","i","t">>}>>,
      <<"Text", {<<"t","e","x","t">>, <<"b","e","a","m">>}>>,
      <<"Hand", {<<"h","a","n","d","w","r","i","t","i","n","g">>, <<"h","a","n","d">>}>>,
      <<"Link", {<<"l","i","n","k">>}>>,
      <<"Cross", {<<"p","r","e","c","i","s","i","o","n">>, <<"c","r","o","s","s">>}>>,
      <<"Move", {<<"m","o","v","e">>}>>,
      <<"Help", {<<"h","e","l","p">>}>>,
      <<"Unavailable", {<<"u","n","a","v","a","i","l","a","b","l","e">>, <<"n","o">>}>>,
      <<"Vertical", {<<"v","e","r","t","i","c","a","l">>, <<"v","e","r","t">>}>>,
      <<"Horizontal", {<<"h","o","r","i","z","o","n","t","a","l">>, <<"h","o","r","z">>}>>,
      <<"Dgn1", {<<"d","i","a","g","o","n","a","l","1">>, <<"d","g","n","1">>}>>,
      <<"Dgn2", {<<"d","i","a","g","o","n","a","l","2">>, <<"d","g","n","2">>}>>,
      <<"Work", {<<"w","o","r","k","i","n","g">>, <<"w","o","r","k">>, <<"p","r","o","g","r","e","s","s">>}>>,
      <<"Alternate", {<<"a","l","t","e","r","n","a","t","e">>, <<"a","l","t">>}>>>>

\* the positions in RoleOrder of the roles one of whose substrings occurs in the stem
MatchingRoles(stem) ==
    {i \in 1..Len(RoleOrder) : \E x \in RoleOrder[i][2] : Contains(x, stem)}

\* the earliest matching role, None when no role matches
EarliestRole(stem) ==
    IF MatchingRoles(stem) = {} THEN None
    ELSE RoleOrder[CHOOSE i \in MatchingRoles(stem) : \A j \in MatchingRoles(stem) : i <= j][1]

\* C3: with no descriptor hit the result is the earliest role, in the fixed order,
\* one of whose substrings occurs in the lowercased stem, and None exactly when no
\* role's substring occurs; "MyBusyCursor.cur" is Busy.
C3_PatternFirstMatch ==
    (pc = "returned" /\ NoDescriptorHit)
    => /\ cursor_name = EarliestRole(Lower(Stem(cursor_file)))
       /\ (cursor_name = None) = (MatchingRoles(Lower(Stem(cursor_file))) = {})
       /\ (cursor_file = <<"M","y","B","u","s","y","C","u","r","s","o","r",".","c","u","r">> => cursor_name = "Busy")

\* C3 witness: a stem in which "link" comes first and "HAND" second resolves to Hand
C3_Witness ==
    /\ pc = "returned"
    /\ NoDescriptorHit
    /\ cursor_file = <<"l","i","n","k","H","A","N","D",".","a","n","i">>
    /\ cursor_name = "Hand"

\* --------------------------------------------------- the run: C4 .. C10
\* the positions of the themes whose processing has returned
FinishedThemes == {t \in 1..Len(theme_dirs) : t < theme_idx}

\* the cursor files of the theme at position t, in the order they are processed
FilesOf(t) == FindCursorFiles(theme_dirs[t].entries)

\* a message of that kind was printed about that file of the theme at position t
Said(msg, t, f) ==
    \E i \in 1..Len(stdout) :
        /\ stdout[i].msg = msg
        /\ stdout[i].theme = theme_dirs[t].name
        /\ stdout[i].file = f

\* the tallies printed for the theme at position t, as (converted, total) pairs
Tallies(t) ==
    {<<stdout[i].count, stdout[i].total>> :
        i \in {j \in 1..Len(stdout) :
                 stdout[j].msg = "Converted" /\ stdout[j].theme = theme_dirs[t].name}}

\* the conversion of file f of the theme at position t was reported successful
Succeeded(t, f) == Said("Converting", t, f) /\ ~Said("Failed to convert", t, f)

\* the output directory of the theme at position t
Out(t) == output[theme_dirs[t].name]

\* C4 (as claimed): a theme without cursor files still gets its index.theme, an
\* empty cursors directory and a 0/0 tally.
C4_EmptyThemeGetsIndex ==
    \A t \in FinishedThemes :
        FilesOf(t) = <<>>
        => /\ theme_dirs[t].name \in DOMAIN output
           /\ Out(t).cursors = <<>>
           /\ Out(t).files = ("index.theme" :> IndexTheme(theme_dirs[t].name))
           /\ <<0, 0>> \in Tallies(t)

\* C4 (amended): a theme without cursor files gets an empty cursors directory and
\* the message "No cursor files found"; no index.theme is written and no tally is
\* printed for it.
C4_EmptyThemeReturnsEarly ==
    \A t \in FinishedThemes :
        FilesOf(t) = <<>>
        => /\ theme_dirs[t].name \in DOMAIN output
           /\ Out(t).cursors = <<>>
           /\ Out(t).files = <<>>
           /\ Said("No cursor files found", t, <<>>)
           /\ Tallies(t) = {}

\* C4 witness: a run has ended that processed a theme without cursor files
C4_Witness ==
    /\ pc = "exited"
    /\ \E t \in FinishedThemes : FilesOf(t) = <<>>

\* C5: a file that is unresolved, unmapped or fails to convert aborts nothing: every
\* file of a finished theme was classified (skipped or attempted), the tally counts
\* exactly the successful conversions, the index.theme is written, and a run that
\* reached the themes ends only after all of them.
C5_FailureIsolation ==
    /\ \A t \in FinishedThemes :
        LET files == FilesOf(t)
        IN files # <<>>
        => /\ \A f \in Range(files) :
                \/ Said("Skipping unmapped cursor", t, f)
                \/ Said("No mapping found for", t, f)
                \/ Said("Converting", t, f)
           /\ Tallies(t) = {<<Cardinality({f \in Range(files) : Succeeded(t, f)}),
                              Len(files)>>}
           /\ Out(t).files = ("index.theme" :> IndexTheme(theme_dirs[t].name))
    /\ (pc = "exited" /\ theme_idx > 0) => (theme_idx = Len(theme_dirs) + 1 /\ exit_code = 0)
    /\ pc \in {"classify", "tempdir", "win2xcur", "copy", "cleanup"}
       => \A i \in 1..(file_idx - 1) :
            \/ Said("Skipping unmapped cursor", theme_idx, cursor_files[i])
            \/ Said("No mapping found for", theme_idx, cursor_files[i])
            \/ Said("Converting", theme_idx, cursor_files[i])

\* C5 witness: the first file of the first theme failed, the second was converted,
\* and a later theme was processed and has a converted file
C5_Witness ==
    /\ pc = "exited"
    /\ Len(theme_dirs) >= 2
    /\ Len(FilesOf(1)) >= 2
    /\ Said("Failed to convert", 1, FilesOf(1)[1])
    /\ Succeeded(1, FilesOf(1)[2])
    /\ \E f \in Range(FilesOf(2)) : Succeeded(2, f)

\* C6: the converter is checked once, before anything is created; the exit code is
\* 1 exactly when that check failed, and then nothing was created or converted; it
\* is 0 at every other end of the run.
C6_ExitCodes ==
    /\ checks <= 1
    /\ (pc # "check_win2xcur") = (checks = 1)
    /\ checks = 0
       => /\ ~output_exists /\ output = <<>> /\ theme_idx = 0 /\ calls = 0 /\ stdout = <<>>
    /\ (pc = "exited") = (exit_code # NotExited)
    /\ pc = "exited"
       => /\ exit_code \in {0, 1}
          /\ (exit_code = 1) = ~win2xcur_ok
    /\ (pc = "exited" /\ ~win2xcur_ok)
       => /\ ~output_exists /\ output = <<>> /\ theme_idx = 0 /\ calls = 0
          /\ \A i \in 1..Len(stdout) : stdout[i].msg # "Created input directory"

\* C6 witness: a run in which conversions were attempted and all failed ended with 0
C6_Witness ==
    /\ pc = "exited"
    /\ exit_code = 0
    /\ calls >= 2
    /\ \A t \in 1..Len(theme_dirs) : \A f \in Range(FilesOf(t)) : ~Succeeded(t, f)

\* the alias sets of the 15-role table
DocumentedAliases ==
    [
     Alternate |-> {<<"b","o","t","t","o","m","_","l","e","f","t","_","c","o","r","n","e","r">>, <<"b","o","t","t","o","m","_","r","i","g","h","t","_","c","o","r","n","e","r">>, <<"b","o","t","t","o","m","_","s","i","d","e">>, <<"d","o","w","n","-","a","r","r","o","w">>, <<"l","e","f","t","-","a","r","r","o","w">>, <<"l","e","f","t","_","s","i","d","e">>, <<"r","i","g","h","t","-","a","r","r","o","w">>, <<"r","i","g","h","t","_","s","i","d","e">>, <<"t","o","p","_","l","e","f","t","_","c","o","r","n","e","r">>, <<"t","o","p","_","r","i","g","h","t","_","c","o","r","n","e","r">>, <<"t","o","p","_","s","i","d","e">>, <<"u","p","_","a","r","r","o","w">>},
     Busy |-> {<<"h","a","l","f","-","b","u","s","y">>, <<"w","a","i","t">>, <<"w","a","t","c","h">>},
     Cross |-> {<<"c","r","o","s","s">>, <<"c","r","o","s","s","h","a","i","r">>},
     Default |-> {<<"a","r","r","o","w">>, <<"d","e","f","a","u","l","t">>, <<"l","e","f","t","_","p","t","r">>, <<"s","i","z","e","-","b","d","i","a","g">>, <<"s","i","z","e","-","f","d","i","a","g">>, <<"s","i","z","e","-","h","o","r">>, <<"s","i","z","e","-","v","e","r">>, <<"t","o","p","_","l","e","f","t","_","a","r","r","o","w">>},
     Dgn1 |-> {<<"n","w","-","r","e","s","i","z","e">>, <<"n","w","s","e","-","r","e","s","i","z","e">>, <<"s","e","-","r","e","s","i","z","e">>, <<"s","i","z","e","_","f","d","i","a","g">>},
     Dgn2 |-> {<<"n","e","-","r","e","s","i","z","e">>, <<"n","e","s","w","-","r","e","s","i","z","e">>, <<"s","w","-","r","e","s","i","z","e">>, <<"s","i","z","e","_","b","d","i","a","g">>},
     Hand |-> {<<"d","r","a","f","t">>, <<"p","e","n","c","i","l">>},
     Help |-> {<<"h","e","l","p">>, <<"l","e","f","t","_","p","t","r","_","h","e","l","p">>, <<"q","u","e","s","t","i","o","n","_","a","r","r","o","w">>, <<"w","h","a","t","s","_","t","h","i","s">>},
     Horizontal |-> {<<"c","o","l","-","r","e","s","i","z","e">>, <<"e","-","r","e","s","i","z","e">>, <<"e","w","-","r","e","s","i","z","e">>, <<"h","_","d","o","u","b","l","e","_","a","r","r","o","w">>, <<"s","b","_","h","_","d","o","u","b","l","e","_","a","r","r","o","w">>, <<"s","i","z","e","_","h","o","r">>, <<"s","p","l","i","t","_","h">>, <<"w","-","r","e","s","i","z","e">>},
     Link |-> {<<"g","r","a","b">>, <<"h","a","n","d">>, <<"h","a","n","d","1">>, <<"h","a","n","d","2">>, <<"o","p","e","n","h","a","n","d">>, <<"p","o","i","n","t","e","r">>, <<"p","o","i","n","t","i","n","g","_","h","a","n","d">>},
     Move |-> {<<"a","l","l","-","s","c","r","o","l","l">>, <<"c","l","o","s","e","d","h","a","n","d">>, <<"d","n","d","-","m","o","v","e">>, <<"d","n","d","-","n","o","n","e">>, <<"f","l","e","u","r">>, <<"g","r","a","b","b","i","n","g">>, <<"m","o","v","e">>, <<"s","i","z","e","_","a","l","l">>},
     Text |-> {<<"i","b","e","a","m">>, <<"t","e","x","t">>, <<"x","t","e","r","m">>},
     Unavailable |-> {<<"c","i","r","c","l","e">>, <<"c","r","o","s","s","e","d","_","c","i","r","c","l","e">>, <<"d","n","d","_","n","o","_","d","r","o","p">>, <<"f","o","r","b","i","d","d","e","n">>, <<"n","o","_","d","r","o","p">>, <<"n","o","t","_","a","l","l","o","w","e","d">>},
     Vertical |-> {<<"n","-","r","e","s","i","z","e">>, <<"n","s","-","r","e","s","i","z","e">>, <<"r","o","w","-","r","e","s","i","z","e">>, <<"s","-","r","e","s","i","z","e">>, <<"s","b","_","v","_","d","o","u","b","l","e","_","a","r","r","o","w">>, <<"s","i","z","e","_","v","e","r">>, <<"s","p","l","i","t","_","v">>, <<"v","_","d","o","u","b","l","e","_","a","r","r","o","w">>},
     Work |-> {<<"l","e","f","t","_","p","t","r","_","w","a","t","c","h">>, <<"p","i","r","a","t","e">>, <<"p","r","o","g","r","e","s","s">>}]

\* the expansion of every role of CURSOR_MAPPINGS is its documented alias set
TableAsDocumented ==
    /\ DOMAIN CURSOR_MAPPINGS = DOMAIN DocumentedAliases
    /\ \A r \in DOMAIN DocumentedAliases :
        /\ Range(SplitWords(MappingGet(r))) = DocumentedAliases[r]
        /\ Len(SplitWords(MappingGet(r))) = Cardinality(DocumentedAliases[r])

\* the names in a cursors directory that hold a given artifact
Holding(cursors, artifact) == {a \in DOMAIN cursors : cursors[a] = artifact}

\* C7: the table expands as documented (a fact of the constant table, evaluated
\* where the run starts); a conversion reported successful has written exactly the alias set of the
\* file's role, every alias holding the one artifact of the call's single converter
\* invocation; a theme of only "normal.cur" without descriptor yields the eight
\* Default aliases and an index.theme naming the theme.
C7_ExactAliasSet ==
    /\ pc = "check_win2xcur" => TableAsDocumented
    /\ (pc = "cleanup" /\ ret)
       => /\ converter_runs = 1
          /\ converted_file = Converted(Theme.name, cursor_file)
          /\ Holding(Out(theme_idx).cursors, converted_file) = DocumentedAliases[cursor_name]
    /\ \A t \in FinishedThemes :
        (FilesOf(t) = <<<<"n","o","r","m","a","l",".","c","u","r">>>> /\ FindInfFile(theme_dirs[t].entries) = NoInf
            /\ Succeeded(t, <<"n","o","r","m","a","l",".","c","u","r">>))
        => /\ DOMAIN Out(t).cursors =
                {<<"l","e","f","t","_","p","t","r">>, <<"d","e","f","a","u","l","t">>, <<"a","r","r","o","w">>, <<"t","o","p","_","l","e","f","t","_","a","r","r","o","w">>, <<"s","i","z","e","-","b","d","i","a","g">>,
                 <<"s","i","z","e","-","f","d","i","a","g">>, <<"s","i","z","e","-","h","o","r">>, <<"s","i","z","e","-","v","e","r">>}
           /\ \A a \in DOMAIN Out(t).cursors :
                Out(t).cursors[a] = Converted(theme_dirs[t].name, <<"n","o","r","m","a","l",".","c","u","r">>)
           /\ DOMAIN Out(t).files = {"index.theme"}
           /\ Out(t).files["index.theme"].Name = theme_dirs[t].name

\* C7 witness: a theme of only "normal.cur" was converted and the run has ended
C7_Witness ==
    /\ pc = "exited"
    /\ \E t \in FinishedThemes :
        /\ FilesOf(t) = <<<<"n","o","r","m","a","l",".","c","u","r">>>>
        /\ Succeeded(t, <<"n","o","r","m","a","l",".","c","u","r">>)
        /\ Cardinality(DOMAIN Out(t).cursors) = 8

\* the positions in stdout of the "Converting" messages about the theme at position t
Attempts(t) ==
    {i \in 1..Len(stdout) :
        stdout[i].msg = "Converting" /\ stdout[i].theme = theme_dirs[t].name}

\* the attempts on the theme at position t whose role expands to alias a
WritersOf(t, a) == {i \in Attempts(t) : a \in DocumentedAliases[stdout[i].role]}

\* the largest element of a non-empty set of numbers
Last(S) == CHOOSE i \in S : \A j \in S : j <= i

\* C8: when two or more files of a theme expand to the same alias and all of their
\* conversions succeed, the alias holds the artifact of the one converted last, no
\* error is reported, and all of them are counted in the tally.
C8_LastWriterWins ==
    \A t \in FinishedThemes :
        \A a \in UNION {DocumentedAliases[stdout[i].role] : i \in Attempts(t)} :
            (Cardinality(WritersOf(t, a)) >= 2
                /\ \A i \in WritersOf(t, a) : Succeeded(t, stdout[i].file))
            => /\ a \in DOMAIN Out(t).cursors
               /\ Out(t).cursors[a] =
                    Converted(theme_dirs[t].name, stdout[Last(WritersOf(t, a))].file)
               /\ \A i \in WritersOf(t, a) : ~Said("Error converting", t, stdout[i].file)
               /\ \A c \in Tallies(t) : c[1] >= Cardinality(WritersOf(t, a))

\* C8 witness: both files of a theme whose two files are Hand were converted
C8_Witness ==
    /\ pc = "exited"
    /\ \E t \in FinishedThemes :
        /\ Cardinality(Attempts(t)) = 2
        /\ \A i \in Attempts(t) : stdout[i].role = "Hand" /\ Succeeded(t, stdout[i].file)
        /\ <<2, 2>> \in Tallies(t)

\* the number of convert_cursor_file calls the messages show
ConvertingMessages == Cardinality({i \in 1..Len(stdout) : stdout[i].msg = "Converting"})

\* C9: every call has a scratch directory of its own, runs the converter at most
\* once, and has removed the directory when it returns, whatever the outcome: a
\* scratch directory exists only inside a call, and never more than one.
C9_ScratchDirectory ==
    /\ Cardinality(temp_dirs) <= 1
    /\ converter_runs <= 1
    /\ pc \in {"win2xcur", "copy", "cleanup"} => temp_dirs = {calls}
    /\ pc \notin {"win2xcur", "copy", "cleanup"} => temp_dirs = {}
    /\ pc = "tempdir" => calls + 1 = ConvertingMessages
    /\ pc # "tempdir" => calls = ConvertingMessages

\* C9 witness: the run has ended after a failed and a successful conversion
C9_Witness ==
    /\ pc = "exited"
    /\ temp_dirs = {}
    /\ calls >= 2
    /\ \E t \in FinishedThemes : \E f, g \in Range(FilesOf(t)) :
        Said("Failed to convert", t, f) /\ Said("Error converting", t, f) /\ Succeeded(t, g)

\* the alias set each role of CURSOR_MAPPINGS expands to
AliasSets == [r \in DOMAIN CURSOR_MAPPINGS |-> Range(SplitWords(MappingGet(r)))]

\* the alias sets of two distinct roles of CURSOR_MAPPINGS share no name
TableDisjoint ==
    \A r1, r2 \in DOMAIN CURSOR_MAPPINGS : r1 # r2 => AliasSets[r1] \cap AliasSets[r2] = {}

\* every role of the descriptor table, and every role the pattern rules give the
\* tokens, is a key of CURSOR_MAPPINGS with at least one alias
ClassifierRolesMapped ==
    /\ \A p \in mapping : SplitWords(MappingGet(InfMappingGet(p[1]))) # <<>>
    /\ \A s \in Tokens :
        PatternRole(Lower(s)) # None => SplitWords(MappingGet(PatternRole(Lower(s)))) # <<>>

\* C10 (the facts of the constant tables are evaluated where the run starts):
\* the alias sets of distinct roles are disjoint and every role the classifier
\* returns is a key of CURSOR_MAPPINGS with aliases: files of a theme write the same
\* name only when they have the same role, and "No mapping found" is never printed.
C10_DisjointAndMapped ==
    /\ pc = "check_win2xcur" => (TableDisjoint /\ ClassifierRolesMapped)
    /\ \A i \in 1..Len(stdout) : stdout[i].msg # "No mapping found for"
    /\ pc \in {"tempdir", "win2xcur", "copy", "cleanup"} => cursor_name \in DOMAIN CURSOR_MAPPINGS
    /\ \A t \in 1..Len(theme_dirs) : theme_dirs[t].name \in DOMAIN output =>
        \A a \in DOMAIN Out(t).cursors :
            Cardinality({stdout[i].role : i \in WritersOf(t, a)}) = 1

\* C10 witness: two files of one theme wrote the same names, and a file that the
\* descriptor resolved was converted
C10_Witness ==
    /\ pc = "exited"
    /\ \E t \in FinishedThemes : \E a \in DOMAIN Out(t).cursors :
        Cardinality(WritersOf(t, a)) = 2
    /\ \E t \in FinishedThemes :
        Succeeded(t, <<"B","u","s","y",".","c","u","r">>) /\ <<"i","b","e","a","m">> \in DOMAIN Out(t).cursors
====
